---- MODULE Spec2Model ----
(***************************************************************************)
(* Lyrics service: the cache-aside read path of lyrics_api.                *)
(*                                                                         *)
(*   POST /lyrics -> DataService.get_lyrics -> DataService._get_lyrics     *)
(*        -> StorageService.retrieve_lyrics                                *)
(*        -> LyricsScraper.scrape_lyrics (on a miss)                       *)
(*        -> StorageService.store_lyrics                                   *)
(*                                                                         *)
(* Python strings are sequences of one-character strings; a code point     *)
(* outside ASCII is written "U+XXXX".  An exception is a record            *)
(* [type, message]; a message is a sequence of string tokens.              *)
(***************************************************************************)
EXTENDS Integers, Sequences, FiniteSets, TLC

(***************************************************************************)
(* Characters                                                              *)
(***************************************************************************)
ascii_lowercase == <<"a","b","c","d","e","f","g","h","i","j","k","l","m",
                     "n","o","p","q","r","s","t","u","v","w","x","y","z">>

ascii_uppercase == <<"A","B","C","D","E","F","G","H","I","J","K","L","M",
                     "N","O","P","Q","R","S","T","U","V","W","X","Y","Z">>

digits == {"0","1","2","3","4","5","6","7","8","9"}

\* string.punctuation; the grave accent is written "U+0060"
punctuation == {"!","\"","#","$","%","&","'","(",")","*","+",",","-",".","/",
                ":",";","<","=",">","?","@","[","\\","]","^","_","U+0060","{","|",
                "}","~"}

\* what the regular expression class \s matches
whitespace == {" ", "\t", "\n"}

Range(f) == {f[i] : i \in DOMAIN f}

IsAscii(c) ==
    c \in Range(ascii_lowercase) \cup Range(ascii_uppercase) \cup digits
          \cup punctuation \cup whitespace

\* str.lower() and str.upper() on one character
lower(c) ==
    IF c \in Range(ascii_uppercase)
    THEN ascii_lowercase[CHOOSE i \in 1..26 : ascii_uppercase[i] = c]
    ELSE c

upper(c) ==
    IF c \in Range(ascii_lowercase)
    THEN ascii_uppercase[CHOOSE i \in 1..26 : ascii_lowercase[i] = c]
    ELSE c

Lower(s) == [i \in 1..Len(s) |-> lower(s[i])]

RECURSIVE Concat(_)
Concat(ss) == IF ss = <<>> THEN <<>> ELSE Head(ss) \o Concat(Tail(ss))

\* s[i:] of Python, 1-based: the suffix that starts at position i
From(s, i) == IF i > Len(s) THEN <<>> ELSE SubSeq(s, i, Len(s))

\* "sub in s"
Contains(s, sub) ==
    \E i \in 1..(Len(s) + 1) :
        /\ i + Len(sub) - 1 <= Len(s)
        /\ SubSeq(s, i, i + Len(sub) - 1) = sub

(***************************************************************************)
(* LyricsScraper._format_string_for_url                                    *)
(***************************************************************************)
\* unicodedata.normalize('NFKD', c).encode('ascii', 'ignore') on one code
\* point: an ASCII character stays, an accented letter keeps its base letter
\* and loses the combining mark, any other code point is dropped.
nfkd_ascii(c) ==
    CASE IsAscii(c)   -> <<c>>
      [] c = "U+00E9" -> <<"e">>      \* e with acute
      [] c = "U+00E5" -> <<"a">>      \* a with ring above
      [] c = "U+00C9" -> <<"E">>      \* E with acute
      [] OTHER        -> <<>>         \* e.g. U+2019, right single quote

normalize_ascii(s) == Concat([i \in 1..Len(s) |-> nfkd_ascii(s[i])])

\* handle_parentheses(match): the replacement for one "( ... )" group
handle_parentheses(group1) ==
    LET content == Lower(group1)
    IN  IF Contains(content, <<"f","e","a","t">>)
           \/ Contains(content, <<"w","i","t","h">>)
        THEN <<>>
        ELSE content

\* re.sub(r"\(([^)]*)\)", handle_parentheses, s): leftmost "(" that has a
\* ")" after it, up to the first such ")"; the scan resumes after the match.
RECURSIVE sub_parentheses(_)
sub_parentheses(s) ==
    IF \E i \in 1..Len(s) : s[i] = "(" /\ \E j \in (i+1)..Len(s) : s[j] = ")"
    THEN LET i == CHOOSE i \in 1..Len(s) :
                     /\ s[i] = "("
                     /\ \E j \in (i+1)..Len(s) : s[j] = ")"
                     /\ \A k \in 1..(i-1) :
                            ~(s[k] = "(" /\ \E j \in (k+1)..Len(s) : s[j] = ")")
             j == CHOOSE j \in (i+1)..Len(s) :
                     s[j] = ")" /\ \A k \in (i+1)..(j-1) : s[k] # ")"
         IN  SubSeq(s, 1, i-1)
               \o handle_parentheses(SubSeq(s, i+1, j-1))
               \o sub_parentheses(From(s, j+1))
    ELSE s

\* position after the run of whitespace that starts at p
RECURSIVE skip_whitespace(_, _)
skip_whitespace(s, p) ==
    IF p <= Len(s) /\ s[p] \in whitespace THEN skip_whitespace(s, p+1) ELSE p

\* "feat" at position p, re.IGNORECASE
feat_at(s, p) ==
    /\ p + 3 <= Len(s)
    /\ Lower(SubSeq(s, p, p+3)) = <<"f","e","a","t">>

\* r"\s*-\s*feat" (hyphen = TRUE) or r"\s*feat" (hyphen = FALSE) matching at
\* position p: the position after "feat", or 0 when there is no match at p
prefix_match(s, p, hyphen) ==
    LET a == skip_whitespace(s, p)
    IN  IF hyphen
        THEN IF a <= Len(s) /\ s[a] = "-"
             THEN LET b == skip_whitespace(s, a+1)
                  IN  IF feat_at(s, b) THEN b + 4 ELSE 0
             ELSE 0
        ELSE IF feat_at(s, a) THEN a + 4 ELSE 0

\* ".*": up to, not including, the next newline
RECURSIVE skip_to_newline(_, _)
skip_to_newline(s, p) ==
    IF p <= Len(s) /\ s[p] # "\n" THEN skip_to_newline(s, p+1) ELSE p

\* re.sub(r"\s*-\s*feat.*", "", s, flags=re.IGNORECASE) and
\* re.sub(r"\s*feat.*", "", s, flags=re.IGNORECASE), scanning from p
RECURSIVE sub_feat(_, _, _)
sub_feat(s, p, hyphen) ==
    IF p > Len(s) THEN <<>>
    ELSE LET e == prefix_match(s, p, hyphen)
         IN  IF e # 0
             THEN sub_feat(s, skip_to_newline(s, e), hyphen)
             ELSE <<s[p]>> \o sub_feat(s, p+1, hyphen)

\* s.replace("$", "-").replace("&", "and")
replace_special(s) ==
    Concat([i \in 1..Len(s) |->
              CASE s[i] = "$" -> <<"-">>
                [] s[i] = "&" -> <<"a","n","d">>
                [] OTHER      -> <<s[i]>>])

\* s.translate(str.maketrans("", "", string.punctuation.replace("-", "")))
remove_punctuation(s) == SelectSeq(s, LAMBDA c : c \notin (punctuation \ {"-"}))

\* s.replace(" ", "-")
replace_spaces(s) == [i \in 1..Len(s) |-> IF s[i] = " " THEN "-" ELSE s[i]]

\* s.strip("-")
RECURSIVE lstrip_hyphen(_)
lstrip_hyphen(s) ==
    IF s # <<>> /\ Head(s) = "-" THEN lstrip_hyphen(Tail(s)) ELSE s

RECURSIVE rstrip_hyphen(_)
rstrip_hyphen(s) ==
    IF s # <<>> /\ s[Len(s)] = "-"
    THEN rstrip_hyphen(SubSeq(s, 1, Len(s) - 1))
    ELSE s

strip_hyphen(s) == rstrip_hyphen(lstrip_hyphen(s))

\* re.sub(r'-+', '-', s)
RECURSIVE collapse_hyphens(_)
collapse_hyphens(s) ==
    IF Len(s) < 2 THEN s
    ELSE IF s[1] = "-" /\ s[2] = "-"
         THEN collapse_hyphens(Tail(s))
         ELSE <<s[1]>> \o collapse_hyphens(Tail(s))

_format_string_for_url(s) ==
    LET s1 == normalize_ascii(s)
        s2 == sub_parentheses(s1)
        s3 == sub_feat(s2, 1, TRUE)
        s4 == sub_feat(s3, 1, FALSE)
        s5 == remove_punctuation(replace_special(s4))
        s6 == strip_hyphen(replace_spaces(Lower(s5)))
    IN  collapse_hyphens(s6)

(***************************************************************************)
(* Exceptions and results of calls                                         *)
(***************************************************************************)
NoExc == [type |-> "None", message |-> <<>>]

Exc(type, message) == [type |-> type, message |-> message]

\* what a call gives back: a returned value, or a raised exception
Return(v) == [exc |-> NoExc, value |-> v]

Raise(type, message) == [exc |-> Exc(type, message), value |-> <<>>]

\* isinstance(e, cls): the class hierarchy of the exceptions
IsInstance(type, cls) ==
    \/ type = cls
    \/ type # "None" /\ cls = "Exception"
    \/ type = "DataServiceNotFoundException" /\ cls = "DataServiceException"
    \/ type = "LyricsScraperNotFoundException" /\ cls = "LyricsScraperException"
    \/ type \in {"IntegrityError", "OperationalError"} /\ cls = "DatabaseError"

\* Optional[str]
None == [some |-> FALSE, value |-> <<>>]

Some(v) == [some |-> TRUE, value |-> v]

(***************************************************************************)
(* LyricsScraper._get_url                                                  *)
(***************************************************************************)
\* a _get_url that upper-cases the whole artist
_get_url_upper_artist(artist_name, track_title) ==
    LET artist == _format_string_for_url(artist_name)
        title  == _format_string_for_url(track_title)
    IN  IF artist = <<>>
        THEN Raise("IndexError", <<"string index out of range">>)
        ELSE Return(<<"/">> \o [i \in 1..Len(artist) |-> upper(artist[i])]
                      \o <<"-">> \o title \o <<"-","l","y","r","i","c","s">>)

_get_url(artist_name, track_title) ==
    LET artist == _format_string_for_url(artist_name)
        title  == _format_string_for_url(track_title)
    IN  IF artist = <<>>
        THEN Raise("IndexError", <<"string index out of range">>)   \* artist[0]
        ELSE Return(<<"/", upper(artist[1])>> \o Tail(artist) \o <<"-">>
                      \o title \o <<"-","l","y","r","i","c","s">>)

(***************************************************************************)
(* Markup: a parsed document is a sequence of nodes.  A node is a text     *)
(* node (name "#text") or a tag with its child nodes; marker is the        *)
(* attribute data-lyrics-container="true".                                 *)
(***************************************************************************)
Text(s) == [name |-> "#text", marker |-> FALSE, text |-> s, contents |-> <<>>]

Tag(name, contents) ==
    [name |-> name, marker |-> FALSE, text |-> <<>>, contents |-> contents]

LyricsContainer(contents) ==
    [name |-> "div", marker |-> TRUE, text |-> <<>>, contents |-> contents]

NoTag == [name |-> "None", marker |-> FALSE, text |-> <<>>, contents |-> <<>>]

\* str(element): a text node is its text, a tag is its serialized markup
RECURSIVE str(_)
str(element) ==
    CASE element.name = "#text" -> element.text
      [] element.name = "br"    -> <<"<br/>">>
      [] OTHER ->
            <<"<" \o element.name \o ">">>
              \o Concat([i \in 1..Len(element.contents) |-> str(element.contents[i])])
              \o <<"</" \o element.name \o ">">>

\* element.find(name): the first descendant tag of that name, in document order
RECURSIVE find(_, _)
find(contents, name) ==
    IF contents = <<>> THEN NoTag
    ELSE LET first == Head(contents)
         IN  IF first.name = name THEN first
             ELSE LET inner == find(first.contents, name)
                  IN  IF inner # NoTag THEN inner
                      ELSE find(Tail(contents), name)

\* soup.select("div[data-lyrics-container='true']")
_extract_lyrics_containers(html) ==
    SelectSeq(html, LAMBDA el : el.name = "div" /\ el.marker)

\* a loop body that keeps the markup of every element but a
clean_element_keep_other(element) ==
    IF element.name = "a"
    THEN LET span == find(element.contents, "span")
         IN  IF span = NoTag
             THEN Raise("TypeError", <<"'NoneType' object is not iterable">>)
             ELSE Return(Concat([i \in 1..Len(span.contents) |->
                                    str(span.contents[i])]))
    ELSE Return(str(element))

\* what one child of a container adds to its section
clean_element(element) ==
    IF element.name # "#text"
    THEN IF element.name \in {"br", "i", "b"}
         THEN Return(str(element))
         ELSE IF element.name = "a"
              THEN LET span == find(element.contents, "span")
                   IN  IF span = NoTag
                       THEN Raise("TypeError", <<"'NoneType' object is not iterable">>)
                       ELSE Return(Concat([i \in 1..Len(span.contents) |->
                                              str(span.contents[i])]))
              ELSE Return(<<>>)
    ELSE Return(str(element))

\* the inner loop: one container's section
clean_section(container) ==
    LET parts == [i \in 1..Len(container.contents) |->
                     clean_element(container.contents[i])]
    IN  IF \E i \in 1..Len(parts) : parts[i].exc # NoExc
        THEN parts[CHOOSE i \in 1..Len(parts) :
                      /\ parts[i].exc # NoExc
                      /\ \A k \in 1..(i-1) : parts[k].exc = NoExc]
        ELSE Return(Concat([i \in 1..Len(parts) |-> parts[i].value]))

\* a join that puts the separator after every section
join_br_after_each(sections) ==
    Concat([i \in 1..Len(sections) |-> sections[i] \o <<"<br/>">>])

\* "<br/>".join(cleaned_lyrics)
RECURSIVE join_br(_)
join_br(sections) ==
    IF sections = <<>> THEN <<>>
    ELSE IF Len(sections) = 1 THEN sections[1]
         ELSE sections[1] \o <<"<br/>">> \o join_br(Tail(sections))

_clean_lyrics_text(lyrics_containers) ==
    LET sections == [i \in 1..Len(lyrics_containers) |->
                        clean_section(lyrics_containers[i])]
    IN  IF \E i \in 1..Len(sections) : sections[i].exc # NoExc
        THEN sections[CHOOSE i \in 1..Len(sections) :
                         /\ sections[i].exc # NoExc
                         /\ \A k \in 1..(i-1) : sections[k].exc = NoExc]
        ELSE Return(join_br([i \in 1..Len(sections) |-> sections[i].value]))

(***************************************************************************)
(* The transport: what client.get(url, follow_redirects=True) gives back   *)
(***************************************************************************)
\* httpx.Response.is_success
is_success(status_code) == 200 <= status_code /\ status_code <= 299

Response(status_code, html) ==
    [kind |-> "Response", status_code |-> status_code, html |-> html,
     error |-> ""]

TransportError(kind, error) ==
    [kind |-> kind, status_code |-> 0, html |-> <<>>, error |-> error]

NotFetched == TransportError("None", "")

\* response.raise_for_status()
raise_for_status(response) ==
    IF is_success(response.status_code)
    THEN Return(response)
    ELSE Raise("HTTPStatusError", <<"Client error for url">>)

\* a _get_html whose "except Exception" clause comes first
_get_html_generic_first(fetched) ==
    IF fetched.kind = "Response" /\ is_success(fetched.status_code)
    THEN Return(fetched.html)
    ELSE Raise("LyricsScraperException",
               <<"Failed to retrieve HTML", " - ">>
                 \o (IF fetched.kind = "Response"
                     THEN <<"Client error for url">> ELSE <<fetched.error>>))

\* LyricsScraper._get_html from the point where _make_limited_request
\* returns `fetched` or raises it
_get_html(fetched) ==
    LET tried == IF fetched.kind = "Response"
                 THEN LET checked == raise_for_status(fetched)
                      IN  IF checked.exc # NoExc THEN checked
                          ELSE Return(fetched.html)
                 ELSE Raise(fetched.kind, <<fetched.error>>)
        e == tried.exc
    IN  IF e = NoExc THEN tried
        ELSE IF IsInstance(e.type, "HTTPStatusError")
             THEN Raise("LyricsScraperException",
                        <<"Non-2XX status code", " - ">> \o e.message)
        ELSE IF IsInstance(e.type, "RequestError")
             THEN Raise("LyricsScraperException",
                        <<"Request failed", " - ">> \o e.message)
        ELSE Raise("LyricsScraperException",
                   <<"Failed to retrieve HTML", " - ">> \o e.message)

(***************************************************************************)
(* LyricsScraper.scrape_lyrics, in the two parts its one await separates   *)
(***************************************************************************)
\* a scrape_lyrics without except clauses
scrape_lyrics_except_none(tried) == tried

\* the except clauses of scrape_lyrics
scrape_lyrics_except(tried) ==
    IF tried.exc = NoExc THEN tried
    ELSE IF IsInstance(tried.exc.type, "LyricsScraperException") THEN tried
    ELSE Raise("LyricsScraperException",
               <<"An error occurred while scraping the lyrics">>)

\* up to the await of _get_html: the url to fetch
scrape_lyrics_url(artist_name, track_title) ==
    scrape_lyrics_except(_get_url(artist_name, track_title))

\* a test that finds nothing empty
is_falsy_never(value) == FALSE

\* "not lyrics_containers" and "not lyrics": an empty list, an empty string
is_falsy(value) == value = <<>>

\* from the return of the limited request to the end
scrape_lyrics_html(artist_name, track_title, fetched) ==
    LET html == _get_html(fetched)
        tried ==
          IF html.exc # NoExc THEN html
          ELSE LET lyrics_containers == _extract_lyrics_containers(html.value)
               IN  IF is_falsy(lyrics_containers)
                   THEN Raise("LyricsScraperException",
                              <<"Lyrics containers not found for ">>
                                \o artist_name \o <<" - ">> \o track_title)
                   ELSE LET lyrics == _clean_lyrics_text(lyrics_containers)
                        IN  IF lyrics.exc # NoExc THEN lyrics
                            ELSE IF is_falsy(lyrics.value)
                                 THEN Raise("LyricsScraperException",
                                            <<"Lyrics not found for ">>
                                              \o artist_name \o <<" - ">>
                                              \o track_title)
                                 ELSE lyrics
    IN  scrape_lyrics_except(tried)

(***************************************************************************)
(* StorageService: the Lyrics table is a function from the track ids that  *)
(* have a row to their lyrics                                              *)
(***************************************************************************)
\* an INSERT into a table emptied first: only the new row is left
execute_insert_emptied_table(db, track_id, lyrics, fault) ==
    IF fault # "None"
    THEN [exc |-> Exc(fault, <<"database fault">>), db |-> db]
    ELSE IF track_id \in DOMAIN db
         THEN [exc |-> Exc("IntegrityError",
                           <<"UNIQUE constraint failed: Lyrics.track_id">>),
               db |-> db]
         ELSE [exc |-> NoExc, db |-> [k \in {track_id} |-> lyrics]]

\* INSERT OR REPLACE: the row of an existing track_id is overwritten
execute_insert_or_replace(db, track_id, lyrics, fault) ==
    IF fault # "None"
    THEN [exc |-> Exc(fault, <<"database fault">>), db |-> db]
    ELSE [exc |-> NoExc,
          db |-> [k \in DOMAIN db \cup {track_id} |->
                     IF k = track_id THEN lyrics ELSE db[k]]]

\* db.execute of the INSERT statement and db.commit: the primary key admits
\* one row per track_id; `fault` is a failure of the database itself
execute_insert(db, track_id, lyrics, fault) ==
    IF fault # "None"
    THEN [exc |-> Exc(fault, <<"database fault">>), db |-> db]
    ELSE IF track_id \in DOMAIN db
         THEN [exc |-> Exc("IntegrityError",
                           <<"UNIQUE constraint failed: Lyrics.track_id">>),
               db |-> db]
         ELSE [exc |-> NoExc,
               db |-> [k \in DOMAIN db \cup {track_id} |->
                          IF k = track_id THEN lyrics ELSE db[k]]]

\* a store_lyrics whose clause for DatabaseError comes first
store_lyrics_generic_first(db, track_id, lyrics, fault) ==
    LET done == execute_insert(db, track_id, lyrics, fault)
        e == done.exc
    IN  IF e = NoExc THEN done
        ELSE IF IsInstance(e.type, "DatabaseError")
             THEN [exc |-> Exc("StorageServiceException",
                               <<"Unexpected database error", " - ">> \o e.message),
                   db |-> done.db]
        ELSE done

\* StorageService.store_lyrics: the INSERT and the except clauses, in the
\* order IntegrityError, OperationalError, DatabaseError
store_lyrics(db, track_id, lyrics, fault) ==
    LET done == execute_insert(db, track_id, lyrics, fault)
        e == done.exc
    IN  IF e = NoExc THEN done
        ELSE IF IsInstance(e.type, "IntegrityError")
             THEN [exc |-> Exc("StorageServiceException",
                               <<"Track ID '">> \o track_id
                                 \o <<"' already exists.">>),
                   db |-> done.db]
        ELSE IF IsInstance(e.type, "OperationalError")
             THEN [exc |-> Exc("StorageServiceException",
                               <<"Database operation failed", " - ">> \o e.message),
                   db |-> done.db]
        ELSE IF IsInstance(e.type, "DatabaseError")
             THEN [exc |-> Exc("StorageServiceException",
                               <<"Unexpected database error", " - ">> \o e.message),
                   db |-> done.db]
        ELSE done

\* a retrieve_lyrics that returns the empty string when there is no row
retrieve_lyrics_empty_string(db, track_id, fault) ==
    IF fault # "None"
    THEN Raise("StorageServiceException", <<"database fault">>)
    ELSE Return(IF track_id \in DOMAIN db THEN Some(db[track_id]) ELSE Some(<<>>))

\* a retrieve_lyrics that returns the first column of the row, row[0]
retrieve_lyrics_row0(db, track_id, fault) ==
    IF fault # "None"
    THEN Raise("StorageServiceException", <<"database fault">>)
    ELSE Return(IF track_id \in DOMAIN db THEN Some(track_id) ELSE None)

\* StorageService.retrieve_lyrics: the SELECT by track_id; row[1] of the
\* row found, None when there is no row
retrieve_lyrics(db, track_id, fault) ==
    LET tried == IF fault # "None"
                 THEN Raise(fault, <<"database fault">>)
                 ELSE Return(IF track_id \in DOMAIN db
                             THEN Some(db[track_id])       \* row[1]
                             ELSE None)
        e == tried.exc
    IN  IF e = NoExc THEN tried
        ELSE IF IsInstance(e.type, "OperationalError")
             THEN Raise("StorageServiceException",
                        <<"Database operation failed", " - ">> \o e.message)
        ELSE IF IsInstance(e.type, "DatabaseError")
             THEN Raise("StorageServiceException",
                        <<"Unexpected database error", " - ">> \o e.message)
        ELSE tried

(***************************************************************************)
(* DataService                                                             *)
(***************************************************************************)
\* a _get_lyrics that scrapes whatever the storage service returned
lyrics_is_None_always(lyrics) == TRUE

\* "if lyrics is None" of _get_lyrics
lyrics_is_None(lyrics) == ~lyrics.some

LyricsResponse(track_id, artist_name, track_title, lyrics) ==
    [track_id |-> track_id, artist_name |-> artist_name,
     track_title |-> track_title, lyrics |-> lyrics]

\* a message that leaves the track title out
request_context_without_title(lyrics_request) ==
    <<"track_id: ">> \o lyrics_request.track_id
      \o <<", artist_name: ">> \o lyrics_request.artist_name

\* the part of the two messages of get_lyrics that names the request
request_context(lyrics_request) ==
    <<"track_id: ">> \o lyrics_request.track_id
      \o <<", artist_name: ">> \o lyrics_request.artist_name
      \o <<", track_title: ">> \o lyrics_request.track_title

\* DataService.get_lyrics around its call of _get_lyrics, which returned
\* or raised `got`
get_lyrics(lyrics_request, got) ==
    LET e == got.exc
    IN  IF e = NoExc
        THEN Return(LyricsResponse(lyrics_request.track_id,
                                   lyrics_request.artist_name,
                                   lyrics_request.track_title, got.value))
        ELSE IF IsInstance(e.type, "LyricsScraperNotFoundException")
             THEN Raise("DataServiceNotFoundException",
                        <<"Lyrics not found for ">>
                          \o request_context(lyrics_request)
                          \o <<" - ">> \o e.message)
        ELSE IF \/ IsInstance(e.type, "LyricsScraperException")
                \/ IsInstance(e.type, "StorageServiceException")
             THEN Raise("DataServiceException",
                        <<"Failed to retrieve lyrics for ">>
                          \o request_context(lyrics_request)
                          \o <<" - ">> \o e.message)
        ELSE got

(***************************************************************************)
(* The endpoint POST /lyrics                                               *)
(***************************************************************************)
HTTPException(status_code, detail) ==
    [status_code |-> status_code, json |-> [detail |-> detail]]

\* the handler of lyrics_api/routers/lyrics.py
router_get_lyrics(result) ==
    LET e == result.exc
    IN  IF e = NoExc THEN [status_code |-> 200, json |-> result.value]
        ELSE IF IsInstance(e.type, "DataServiceNotFoundException")
             THEN HTTPException(404, "Lyrics not found.")
        ELSE IF IsInstance(e.type, "DataServiceException")
             THEN HTTPException(500, "Something went wrong.")
        \* no clause for anything else: the exception leaves the handler and
        \* the server answers with its own 500
        ELSE HTTPException(500, "Internal Server Error")

\* the handler of lyrics_api/main.py
main_get_lyrics(result) ==
    LET e == result.exc
    IN  IF e = NoExc THEN [status_code |-> 200, json |-> result.value]
        ELSE IF IsInstance(e.type, "DataServiceException")
             THEN HTTPException(404, "Lyrics not found.")
        ELSE HTTPException(500, "Internal Server Error")

post_lyrics(module, result) ==
    IF module = "lyrics_api.main"
    THEN main_get_lyrics(result)
    ELSE router_get_lyrics(result)

(***************************************************************************)
(* The requests, the pages and the faults the model draws from             *)
(***************************************************************************)
\* the number of requests in flight at once
NumTasks == 2

\* Settings.max_concurrent_scrapes, the size of the semaphore
max_concurrent_scrapes == 1

Tasks == 1..NumTasks

LyricsRequest(track_id, artist_name, track_title) ==
    [track_id |-> track_id, artist_name |-> artist_name,
     track_title |-> track_title]

NoRequest == LyricsRequest(<<>>, <<>>, <<>>)

\* the second artist is only a "(feat)" group: nothing is left of it
Requests ==
    { LyricsRequest(<<"1">>, <<"A","b">>, <<"C"," ","d">>),
      LyricsRequest(<<"2">>, <<"(","f","e","a","t",")">>, <<"E">>),
      LyricsRequest(<<"3">>, <<"F","&">>, <<"G">>) }

no_container == <<Tag("div", <<Text(<<"x">>)>>)>>

empty_text == <<LyricsContainer(<<Tag("span", <<Text(<<"x">>)>>)>>)>>

lyrics_1 == <<LyricsContainer(<<Text(<<"l","a">>), Tag("br", <<>>)>>)>>

lyrics_2 ==
    <<LyricsContainer(<<Tag("a", <<Tag("span", <<Text(<<"l","o">>)>>)>>)>>),
      Tag("div", <<Text(<<"x">>)>>),
      LyricsContainer(<<Tag("i", <<Text(<<"y">>)>>)>>)>>

link_without_span == <<LyricsContainer(<<Tag("a", <<Text(<<"x">>)>>)>>)>>

Documents == {no_container, empty_text, lyrics_1, lyrics_2, link_without_span}

\* what the transport can answer to one GET
Fetches ==
    {Response(200, html) : html \in Documents}
      \cup {Response(404, <<>>),
            TransportError("RequestError", "ConnectTimeout"),
            TransportError("Exception", "unexpected")}

\* "None": the database answers; otherwise the aiosqlite error it raises.
\* InterfaceError is an sqlite3.Error that is not a DatabaseError: none of
\* the except clauses of the storage service names it
DbFaults == {"None", "OperationalError", "DatabaseError", "InterfaceError"}

\* the modules that define a handler of POST /lyrics
Apps == {"lyrics_api.main", "lyrics_api.routers.lyrics"}

(***************************************************************************)
(* State                                                                   *)
(***************************************************************************)
VARIABLES
    db,         \* the Lyrics table
    semaphore,  \* the free slots of LyricsScraper.semaphore
    pc,         \* per task: the await it is suspended at
    request,    \* per task: the LyricsRequest posted
    calls,      \* per task: the calls DataService made to storage and scraper
    client_get, \* per task: the urls it asked of client.get
    fetched,    \* per task: what client.get gave back
    lyrics,     \* per task: the variable lyrics of _get_lyrics
    caught,     \* per task: the exception get_lyrics caught
    outcome,    \* per task: what get_lyrics returned or raised
    response,   \* per task: the HTTP response, by the module that serves it
    batch,      \* the requests of the resolveAll in progress, or <<>>
    batch_outcome, \* what that resolveAll returned, or <<>>
    applied     \* the method of the scraper applied on its own, with its
                \* arguments and what it returned or raised

vars == <<db, semaphore, pc, request, calls, client_get, fetched, lyrics,
          caught, outcome, response, batch, batch_outcome, applied>>

Call(op, args) == [op |-> op, args |-> args]

NoResponse == [module \in Apps |-> [status_code |-> 0, json |-> [detail |-> ""]]]

\* no method of the scraper is applied on its own
NotApplied == [op |-> "None", args |-> <<>>, returned |-> Return(<<>>)]

Init ==
    /\ applied = NotApplied
    /\ db = <<>>
    /\ semaphore = max_concurrent_scrapes
    /\ pc = [t \in Tasks |-> "idle"]
    /\ request = [t \in Tasks |-> NoRequest]
    /\ calls = [t \in Tasks |-> <<>>]
    /\ client_get = [t \in Tasks |-> <<>>]
    /\ fetched = [t \in Tasks |-> NotFetched]
    /\ lyrics = [t \in Tasks |-> None]
    /\ caught = [t \in Tasks |-> NoExc]
    /\ outcome = [t \in Tasks |-> Return(<<>>)]
    /\ response = [t \in Tasks |-> NoResponse]
    /\ batch = <<>>
    /\ batch_outcome = <<>>

\* _get_lyrics returned or raised `got`: get_lyrics and the endpoint finish
Finish(t, got) ==
    LET result == get_lyrics(request[t], got)
    IN  /\ caught' = [caught EXCEPT ![t] = got.exc]
        /\ outcome' = [outcome EXCEPT ![t] = result]
        /\ response' = [response EXCEPT ![t] =
                            [module \in Apps |-> post_lyrics(module, result)]]
        /\ pc' = [pc EXCEPT ![t] = "done"]

\* POST /lyrics arrives: the handler calls get_lyrics, which calls _get_lyrics,
\* which awaits the storage service
Post(t, lyrics_request) ==
    /\ pc[t] = "idle"
    /\ request' = [request EXCEPT ![t] = lyrics_request]
    /\ calls' = [calls EXCEPT ![t] =
                    <<Call("retrieve_lyrics", <<lyrics_request.track_id>>)>>]
    /\ pc' = [pc EXCEPT ![t] = "retrieve_lyrics"]
    /\ UNCHANGED <<applied, db, semaphore, client_get, fetched, lyrics, caught,
                   outcome, response, batch, batch_outcome>>

\* what _get_lyrics does when retrieve_lyrics has answered `found`:
\* "return" the stored lyrics, or "scrape"
after_retrieve(found) ==
    IF lyrics_is_None(found) THEN "scrape" ELSE "return"

\* the storage service answers the SELECT
Retrieve(t, fault) ==
    /\ pc[t] = "retrieve_lyrics"
    /\ LET found == retrieve_lyrics(db, request[t].track_id, fault)
           scrape == Call("scrape_lyrics",
                          <<request[t].artist_name, request[t].track_title>>)
           url == scrape_lyrics_url(request[t].artist_name,
                                    request[t].track_title)
       IN  IF found.exc # NoExc
           THEN /\ Finish(t, found)
                /\ UNCHANGED <<lyrics, calls>>
           ELSE /\ lyrics' = [lyrics EXCEPT ![t] = found.value]
                /\ IF after_retrieve(found.value) = "return"
                   THEN /\ Finish(t, Return(found.value.value))
                        /\ UNCHANGED calls
                   ELSE /\ calls' = [calls EXCEPT ![t] = Append(@, scrape)]
                        /\ IF url.exc # NoExc
                           THEN Finish(t, url)
                           ELSE /\ pc' = [pc EXCEPT ![t] = "acquire"]
                                /\ UNCHANGED <<caught, outcome, response>>
    /\ UNCHANGED <<applied, db, semaphore, request, client_get, fetched, batch,
                   batch_outcome>>

\* a semaphore that admits everyone
can_acquire_always(value) == TRUE

\* Semaphore.locked() is false: acquire does not wait
can_acquire(value) == value > 0

\* an enter that takes no slot
semaphore_aenter_no_slot(value) == value

\* Semaphore.acquire that does not wait: one slot fewer is free
semaphore_aenter(value) == value - 1

\* "async with self.semaphore": enter
Acquire(t) ==
    /\ pc[t] = "acquire"
    /\ can_acquire(semaphore)
    /\ semaphore' = semaphore_aenter(semaphore)
    /\ pc' = [pc EXCEPT ![t] = "sleep"]
    /\ UNCHANGED <<applied, db, request, calls, client_get, fetched, lyrics,
                   caught, outcome, response, batch, batch_outcome>>

\* a limited request that sends the GET a second time
client_get_call_twice(sent, url) ==
    Append(Append(sent, [url |-> url, follow_redirects |-> TRUE]),
           [url |-> url, follow_redirects |-> TRUE])

\* self.client.get(url=url, follow_redirects=True), added to the GETs that
\* the task has sent
client_get_call(sent, url) ==
    Append(sent, [url |-> url, follow_redirects |-> TRUE])

\* asyncio.sleep(delay) ends: client.get is called
Sleep(t) ==
    /\ pc[t] = "sleep"
    /\ client_get' = [client_get EXCEPT ![t] =
          client_get_call(@, scrape_lyrics_url(request[t].artist_name,
                                               request[t].track_title).value)]
    /\ pc' = [pc EXCEPT ![t] = "get"]
    /\ UNCHANGED <<applied, db, semaphore, request, calls, fetched, lyrics,
                   caught, outcome, response, batch, batch_outcome>>

\* an exit that keeps the slot
semaphore_aexit_never(value, got) == value

\* an exit that gives the slot back only after a response with a 2xx status
semaphore_aexit_on_2xx_only(value, got) ==
    IF got.kind = "Response" /\ is_success(got.status_code)
    THEN value + 1
    ELSE value

\* the exit of "async with self.semaphore" that forgets the slot when the
\* block raised
semaphore_aexit_on_return_only(value, got) ==
    IF got.kind = "Response" THEN value + 1 ELSE value

\* "async with self.semaphore": exit; the slot is given back whether
\* client.get returned or raised `got`
semaphore_aexit(value, got) == value + 1

\* store_item with the title where the key belongs
store_call_wrong_key(lyrics_request, value) ==
    Call("store_lyrics", <<lyrics_request.track_title, value>>)

\* store_item(key=track_id, value=lyrics) of _get_lyrics
store_call(lyrics_request, value) ==
    Call("store_lyrics", <<lyrics_request.track_id, value>>)

\* client.get returns or raises: the semaphore is left, scrape_lyrics runs to
\* its end and _get_lyrics calls store_lyrics with what it returned
Get(t, got) ==
    /\ pc[t] = "get"
    /\ semaphore' = semaphore_aexit(semaphore, got)
    /\ fetched' = [fetched EXCEPT ![t] = got]
    /\ LET scraped == scrape_lyrics_html(request[t].artist_name,
                                         request[t].track_title, got)
       IN  IF scraped.exc # NoExc
           THEN /\ Finish(t, scraped)
                /\ UNCHANGED <<lyrics, calls>>
           ELSE /\ lyrics' = [lyrics EXCEPT ![t] = Some(scraped.value)]
                /\ calls' = [calls EXCEPT ![t] =
                      Append(@, store_call(request[t], scraped.value))]
                /\ pc' = [pc EXCEPT ![t] = "store_lyrics"]
                /\ UNCHANGED <<caught, outcome, response>>
    /\ UNCHANGED <<applied, db, request, client_get, batch, batch_outcome>>

\* the storage service answers the INSERT
Store(t, fault) ==
    /\ pc[t] = "store_lyrics"
    /\ LET stored == store_lyrics(db, request[t].track_id, lyrics[t].value, fault)
       IN  /\ db' = stored.db
           /\ IF stored.exc # NoExc
              THEN Finish(t, [exc |-> stored.exc, value |-> <<>>])
              ELSE Finish(t, Return(lyrics[t].value))
    /\ UNCHANGED <<applied, semaphore, request, calls, client_get, fetched, lyrics,
                   batch, batch_outcome>>

\* the per-task state of a task that holds no request
Idle(t) ==
    /\ pc' = [pc EXCEPT ![t] = "idle"]
    /\ request' = [request EXCEPT ![t] = NoRequest]
    /\ calls' = [calls EXCEPT ![t] = <<>>]
    /\ client_get' = [client_get EXCEPT ![t] = <<>>]
    /\ fetched' = [fetched EXCEPT ![t] = NotFetched]
    /\ lyrics' = [lyrics EXCEPT ![t] = None]
    /\ caught' = [caught EXCEPT ![t] = NoExc]
    /\ outcome' = [outcome EXCEPT ![t] = Return(<<>>)]
    /\ response' = [response EXCEPT ![t] = NoResponse]

\* the response is sent: the task is free for the next request
Respond(t) ==
    /\ pc[t] = "done"
    /\ Idle(t)
    /\ UNCHANGED <<applied, db, semaphore, batch, batch_outcome>>

\* the steps of one task between its request and its result
Step(t) ==
    \/ \E fault \in DbFaults : Retrieve(t, fault)
    \/ Acquire(t)
    \/ Sleep(t)
    \/ \E got \in Fetches : Get(t, got)
    \/ \E fault \in DbFaults : Store(t, fault)

Next ==
    \/ \E t \in Tasks : Respond(t)
    \/ \E t \in Tasks, lyrics_request \in Requests : Post(t, lyrics_request)
    \/ \E t \in Tasks : Step(t)

Spec == Init /\ [][Next]_vars

(***************************************************************************)
(* A finite number of requests, one per task, each run to its end: the     *)
(* event loop resumes every coroutine that can go on, the database and the *)
(* transport answer or fail every call                                     *)
(***************************************************************************)
ResolveNext ==
    \/ \E t \in Tasks, lyrics_request \in Requests : Post(t, lyrics_request)
    \/ \E t \in Tasks : Step(t)

\* ENABLED <<Step(t)>>_vars: the coroutine of the task can go on.  It waits
\* for an answer that comes, or for a slot that is free.
StepEnabled(t) ==
    \/ pc[t] \in {"retrieve_lyrics", "sleep", "get", "store_lyrics"}
    \/ pc[t] = "acquire" /\ can_acquire(semaphore)

\* WF_vars(Step(t)) with its ENABLED written out: a coroutine that can go on
\* from some point on for ever does go on
WeakFairStep(t) ==
    []<>(~StepEnabled(t)) \/ []<><<Step(t)>>_vars

\* The event loop runs every coroutine that is ready, and the semaphore wakes
\* a waiter when a slot is released.
ResolveSpec ==
    /\ Init /\ [][ResolveNext]_vars
    /\ \A t \in Tasks : WeakFairStep(t)
    /\ \A t \in Tasks : WF_vars(Acquire(t))

(***************************************************************************)
(* resolveAll: the batch mode of the orchestrator (section 4.4 of the      *)
(* design); every item is one get_lyrics, started together                 *)
(***************************************************************************)
\* the batches: one to NumTasks requests, in order
Batches == UNION {[1..n -> Requests] : n \in 1..NumTasks}

\* the outcomes of the items, collected in the order of the input
collect(outcomes, n) == [i \in 1..n |-> outcomes[i]]

\* resolveAll(requests): every item runs up to its first await
ResolveAll(requests) ==
    /\ batch = <<>>
    /\ \A t \in Tasks : pc[t] = "idle"
    /\ batch' = requests
    /\ request' = [t \in Tasks |->
                      IF t <= Len(requests) THEN requests[t] ELSE request[t]]
    /\ calls' = [t \in Tasks |->
                    IF t <= Len(requests)
                    THEN <<Call("retrieve_lyrics", <<requests[t].track_id>>)>>
                    ELSE calls[t]]
    /\ pc' = [t \in Tasks |->
                 IF t <= Len(requests) THEN "retrieve_lyrics" ELSE pc[t]]
    /\ UNCHANGED <<applied, db, semaphore, client_get, fetched, lyrics, caught, outcome,
                   response, batch_outcome>>

\* every item has ended: resolveAll returns the outcomes
Gather ==
    /\ batch # <<>>
    /\ batch_outcome = <<>>
    /\ \A i \in 1..Len(batch) : pc[i] = "done"
    /\ batch_outcome' = collect(outcome, Len(batch))
    /\ UNCHANGED <<applied, db, semaphore, pc, request, calls, client_get, fetched,
                   lyrics, caught, outcome, response, batch>>

\* the caller has the outcomes: the next batch may start
BatchReturn ==
    /\ batch_outcome # <<>>
    /\ batch' = <<>>
    /\ batch_outcome' = <<>>
    /\ pc' = [t \in Tasks |-> "idle"]
    /\ request' = [t \in Tasks |-> NoRequest]
    /\ calls' = [t \in Tasks |-> <<>>]
    /\ client_get' = [t \in Tasks |-> <<>>]
    /\ fetched' = [t \in Tasks |-> NotFetched]
    /\ lyrics' = [t \in Tasks |-> None]
    /\ caught' = [t \in Tasks |-> NoExc]
    /\ outcome' = [t \in Tasks |-> Return(<<>>)]
    /\ response' = [t \in Tasks |-> NoResponse]
    /\ UNCHANGED <<applied, db, semaphore>>

BatchNext ==
    \/ \E requests \in Batches : ResolveAll(requests)
    \/ \E t \in Tasks : Step(t)
    \/ Gather
    \/ BatchReturn

BatchSpec == Init /\ [][BatchNext]_vars

(***************************************************************************)
(* The methods of LyricsScraper that compute without awaiting, applied on  *)
(* their own to arguments drawn from bounded sets                          *)
(***************************************************************************)
\* the longest string, list of children and list of containers enumerated
MaxLen == 2

Alphabet == {"A", "b", " ", "-", "$", "&", "(", ")"}

\* the sequences over S of length up to n
SeqsUpTo(S, n) == UNION {[1..k -> S] : k \in 0..n}

\* artist names and track titles of the repository's tests and of the kinds
\* the normalization treats specially
Examples ==
    { <<"T","h","e"," ","B","e","a","t","l","e","s">>,
      <<"H","e","y"," ","J","u","d","e">>,
      <<"H","e","y","\t","J","u","d","e">>,
      <<"(","f","e","a","t","."," ","X",")">>,
      <<"f",".","e","a","t">>,
      <<"!","!","!">>,
      <<"B","e","y","o","n","c","U+00E9">>,
      <<"A","C","/","D","C">>,
      <<"D","r","a","k","e"," ","&"," ","F","u","t","u","r","e">>,
      <<"L","o","v","e"," ","(","R","e","m","i","x",")">>,
      <<"E","m","i","n","e","m"," ","f","e","a","t","."," ","R","i","h","a","n","n","a">> }

Strings == SeqsUpTo(Alphabet, MaxLen) \cup Examples

Titles == {<<>>, <<"b">>, <<"H","e","y"," ","J","u","d","e">>, <<"(","f","e","a","t","."," ","X",")">>}

\* the children a lyrics container can have
Nodes ==
    { Text(<<"l","a">>),
      Tag("br", <<>>),
      Tag("i", <<Text(<<"y">>)>>),
      Tag("b", <<Text(<<"z">>)>>),
      Tag("a", <<Tag("span", <<Text(<<"l","o">>), Tag("br", <<>>)>>)>>),
      Tag("a", <<Tag("div", <<Tag("span", <<Text(<<"n">>)>>)>>)>>),
      Tag("a", <<Tag("span", <<Text(<<"p">>)>>), Tag("span", <<Text(<<"q">>)>>)>>),
      Tag("a", <<Text(<<"x">>)>>),
      Tag("span", <<Text(<<"s">>)>>),
      Tag("div", <<Text(<<"d">>)>>) }

ExampleContainers ==
    { LyricsContainer(<<>>),
      LyricsContainer(<<Text(<<"F","i","r","s","t">>)>>),
      LyricsContainer(<<Text(<<"S","e","c","o","n","d">>), Tag("br", <<>>)>>),
      LyricsContainer(<<Tag("span", <<Text(<<"s">>)>>)>>),
      LyricsContainer(<<Tag("a", <<Text(<<"x">>)>>)>>) }

\* lists of containers: up to MaxLen of the examples, and every single
\* container with up to MaxLen children
ContainerLists ==
    SeqsUpTo(ExampleContainers, MaxLen)
      \cup {<<LyricsContainer(contents)>> : contents \in SeqsUpTo(Nodes, MaxLen)}

Applied(op, args, returned) == [op |-> op, args |-> args, returned |-> returned]

service_vars == <<db, semaphore, pc, request, calls, client_get, fetched,
                  lyrics, caught, outcome, response, batch, batch_outcome>>

FormatStringForUrl(s) ==
    /\ applied = NotApplied
    /\ applied' = Applied("_format_string_for_url", <<s>>,
                          Return(_format_string_for_url(s)))
    /\ UNCHANGED service_vars

GetUrl(artist, title) ==
    /\ applied = NotApplied
    /\ applied' = Applied("_get_url", <<artist, title>>, _get_url(artist, title))
    /\ UNCHANGED service_vars

CleanLyricsText(lyrics_containers) ==
    /\ applied = NotApplied
    /\ applied' = Applied("_clean_lyrics_text", <<lyrics_containers>>,
                          _clean_lyrics_text(lyrics_containers))
    /\ UNCHANGED service_vars

\* the caller has the result
AppliedReturn ==
    /\ applied # NotApplied
    /\ applied' = NotApplied
    /\ UNCHANGED service_vars

ScraperNext ==
    \/ \E s \in Strings : FormatStringForUrl(s)
    \/ \E artist \in Strings, title \in Titles : GetUrl(artist, title)
    \/ \E lyrics_containers \in ContainerLists : CleanLyricsText(lyrics_containers)
    \/ AppliedReturn

ScraperSpec == Init /\ [][ScraperNext]_vars

(***************************************************************************)
(* Properties                                                              *)
(***************************************************************************)
RetrieveCall(t) == Call("retrieve_lyrics", <<request[t].track_id>>)

ScrapeCall(t) ==
    Call("scrape_lyrics", <<request[t].artist_name, request[t].track_title>>)

\* the limited section: the delay and the GET, between entering and leaving
\* the semaphore
InLimitedSection(t) == pc[t] \in {"sleep", "get"}

\* the task fetched a page and scrape_lyrics returned lyrics from it
ScrapeSucceeded(t) ==
    /\ fetched[t] # NotFetched
    /\ scrape_lyrics_html(request[t].artist_name, request[t].track_title,
                          fetched[t]).exc = NoExc

Scraped(t) ==
    scrape_lyrics_html(request[t].artist_name, request[t].track_title,
                       fetched[t]).value

\* C1: a request whose track_id has a stored value, and whose SELECT the
\* database answers, ends at once with exactly the stored value: no
\* scrape_lyrics call, no GET, no slot taken, no store_lyrics call, and the
\* table untouched.
CacheHitIsFetchFree ==
    [][\A t \in Tasks :
          ( /\ pc[t] = "retrieve_lyrics"
            /\ pc'[t] # "retrieve_lyrics"
            /\ request[t].track_id \in DOMAIN db
            /\ caught'[t] = NoExc )
          => /\ pc'[t] = "done"
             /\ outcome'[t].exc = NoExc
             /\ outcome'[t].value.lyrics = db[request[t].track_id]
             /\ calls'[t] = <<RetrieveCall(t)>>
             /\ client_get'[t] = <<>>
             /\ semaphore' = semaphore
             /\ db' = db]_vars

CacheHitWitness ==
    \E t \in Tasks :
        /\ pc[t] = "done"
        /\ outcome[t].exc = NoExc
        /\ calls[t] = <<RetrieveCall(t)>>
        /\ request[t].track_id \in DOMAIN db
        /\ outcome[t].value.lyrics = db[request[t].track_id]

\* C2: a request that missed the cache and whose scrape returned lyrics has
\* made exactly three calls, in this order: retrieve_lyrics(track_id),
\* scrape_lyrics(artist_name, track_title), store_lyrics(track_id, the
\* scraped lyrics).
CacheMissStoresOnce ==
    \A t \in Tasks :
        ScrapeSucceeded(t)
        => calls[t] = <<RetrieveCall(t), ScrapeCall(t),
                        Call("store_lyrics", <<request[t].track_id, Scraped(t)>>)>>

CacheMissWitness ==
    \E t \in Tasks :
        /\ pc[t] = "done"
        /\ ScrapeSucceeded(t)
        /\ outcome[t].exc = NoExc
        /\ db[request[t].track_id] = Scraped(t)

\* the store reported that the key already exists
DuplicateKeyReported(t) ==
    /\ pc[t] = "done"
    /\ caught[t] = Exc("StorageServiceException",
                       <<"Track ID '">> \o request[t].track_id
                         \o <<"' already exists.">>)

\* C3: when the cache write reports a duplicate key, the result still
\* carries the lyrics that were scraped.
DuplicateKeyIsNonFatal ==
    \A t \in Tasks :
        DuplicateKeyReported(t)
        => /\ outcome[t].exc = NoExc
           /\ outcome[t].value.lyrics = lyrics[t].value

\* C4: at most max_concurrent_scrapes tasks are inside the limited section.
AdmissionBound ==
    Cardinality({t \in Tasks : InLimitedSection(t)}) <= max_concurrent_scrapes

AdmissionWitness ==
    /\ Cardinality({t \in Tasks : InLimitedSection(t)}) = max_concurrent_scrapes
    /\ \E t \in Tasks : pc[t] = "acquire"

\* the page was fetched with a 2xx status
FetchedPage(t) ==
    /\ pc[t] = "done"
    /\ fetched[t].kind = "Response"
    /\ is_success(fetched[t].status_code)

\* C5: a fetched page without a lyrics container ends the request with
\* DataServiceNotFoundException.
NoContainerIsNotFound ==
    \A t \in Tasks :
        ( /\ FetchedPage(t)
          /\ _extract_lyrics_containers(fetched[t].html) = <<>> )
        => outcome[t].exc.type = "DataServiceNotFoundException"

\* C6: a fetched page whose containers clean to the empty string ends the
\* request with DataServiceNotFoundException.
EmptyLyricsIsNotFound ==
    \A t \in Tasks :
        ( /\ FetchedPage(t)
          /\ _extract_lyrics_containers(fetched[t].html) # <<>>
          /\ _clean_lyrics_text(_extract_lyrics_containers(fetched[t].html))
               = Return(<<>>) )
        => outcome[t].exc.type = "DataServiceNotFoundException"

FetchFailureKinds ==
    {"Non-2XX status code", "Request failed", "Failed to retrieve HTML"}

\* the kinds of fetch failure that the failure of the request names
KindsIn(e) == {k \in FetchFailureKinds : Contains(e.message, <<k>>)}

\* the kind of failure that the answer of the transport calls for
KindOf(got) ==
    CASE got.kind = "Response" /\ ~is_success(got.status_code)
                                 -> {"Non-2XX status code"}
      [] got.kind = "RequestError" -> {"Request failed"}
      [] got.kind = "Exception"    -> {"Failed to retrieve HTML"}
      [] OTHER                     -> {}

\* C7: the scraper's failure and the DataServiceException that surfaces name
\* exactly the kind of the fetch failure: "Non-2XX status code" for a status
\* outside 2xx, "Request failed" for a request error, "Failed to retrieve
\* HTML" for any other exception, and none of them when the fetch succeeded.
FetchFailureClassified ==
    \A t \in Tasks :
        (pc[t] = "done" /\ fetched[t] # NotFetched)
        => /\ KindsIn(caught[t]) = KindOf(fetched[t])
           /\ KindsIn(outcome[t].exc) = KindOf(fetched[t])
           /\ KindOf(fetched[t]) # {}
                => /\ caught[t].type = "LyricsScraperException"
                   /\ Head(caught[t].message) \in KindOf(fetched[t])
                   /\ outcome[t].exc.type = "DataServiceException"

FetchFailureWitness ==
    \E t, u \in Tasks :
        /\ pc[t] = "done" /\ pc[u] = "done"
        /\ KindsIn(outcome[t].exc) = {"Non-2XX status code"}
        /\ KindsIn(outcome[u].exc) = {"Request failed"}

\* C8: whichever module serves POST /lyrics, the answer is 404 "Lyrics not
\* found." exactly when get_lyrics raised DataServiceNotFoundException and
\* 500 "Something went wrong." for any other DataServiceException.
EndpointOutcomeMapping ==
    \A t \in Tasks, module \in Apps :
        (pc[t] = "done" /\ outcome[t].exc # NoExc)
        => IF outcome[t].exc.type = "DataServiceNotFoundException"
           THEN response[t][module] = HTTPException(404, "Lyrics not found.")
           ELSE response[t][module] = HTTPException(500, "Something went wrong.")

\* get_lyrics caught a failure of the scraper or of the storage service
ClassifiedFailure(t) ==
    /\ pc[t] = "done"
    /\ caught[t] # NoExc
    /\ \/ IsInstance(caught[t].type, "LyricsScraperException")
       \/ IsInstance(caught[t].type, "StorageServiceException")

\* item i of the batch failed: its _get_lyrics raised
ItemFailed(i) == caught[i] # NoExc

DuplicateStoreKeepsValue ==
    \A t \in Tasks :
        (pc[t] = "store_lyrics" /\ request[t].track_id \in DOMAIN db)
        => LET track_id == request[t].track_id
               stored == store_lyrics(db, track_id, lyrics[t].value, "None")
           IN  /\ stored.exc = Exc("StorageServiceException",
                                   <<"Track ID '">> \o track_id
                                     \o <<"' already exists.">>)
               /\ stored.db = db
               /\ retrieve_lyrics(stored.db, track_id, "None")
                    = Return(Some(db[track_id]))

DuplicateStoreWitness ==
    \E t \in Tasks :
        /\ DuplicateKeyReported(t)
        /\ lyrics[t].some
        /\ db[request[t].track_id] # lyrics[t].value

\* C11: store round trip.  A store_lyrics(k, v) that returns leaves the row
\* (k, v); no later step of the service, on any key, removes or changes a
\* row; and every retrieve_lyrics(k) the database answers returns the value
\* of that row.  So every retrieve after a successful store of (k, v)
\* returns v.
StoreRoundTrip ==
    [][/\ \A k \in DOMAIN db : k \in DOMAIN db' /\ db'[k] = db[k]
       /\ \A t \in Tasks :
             ( /\ pc[t] = "store_lyrics"
               /\ pc'[t] = "done"
               /\ caught'[t] = NoExc )
             => /\ request[t].track_id \in DOMAIN db'
                /\ db'[request[t].track_id] = lyrics[t].value
                /\ retrieve_lyrics(db', request[t].track_id, "None")
                     = Return(Some(lyrics[t].value))
       /\ \A t \in Tasks :
             ( /\ pc[t] = "retrieve_lyrics"
               /\ pc'[t] # "retrieve_lyrics"
               /\ request[t].track_id \in DOMAIN db
               /\ caught'[t] = NoExc )
             => lyrics'[t] = Some(db[request[t].track_id])]_vars

\* one request is answered from a row while another request has stored a
\* row under another key
StoreRoundTripWitness ==
    \E t, u \in Tasks :
        /\ pc[t] = "done" /\ pc[u] = "done"
        /\ calls[t] = <<RetrieveCall(t)>>
        /\ outcome[t].exc = NoExc
        /\ lyrics[t] = Some(db[request[t].track_id])
        /\ request[u].track_id # request[t].track_id
        /\ Len(calls[u]) = 3
        /\ outcome[u].exc = NoExc
        /\ db[request[u].track_id] = lyrics[u].value

\* C12: one attempt, no retry.  A request sends at most one GET; a fetch
\* that has an outcome was exactly one GET; and a fetch that failed ends the
\* request at once with a failure, after the one call of scrape_lyrics and
\* without a second GET.
OneAttemptNoRetry ==
    \A t \in Tasks :
        /\ Len(client_get[t]) <= 1
        /\ fetched[t] # NotFetched => Len(client_get[t]) = 1
        /\ (fetched[t] # NotFetched /\ KindOf(fetched[t]) # {})
             => /\ pc[t] = "done"
                /\ outcome[t].exc # NoExc
                /\ calls[t] = <<RetrieveCall(t), ScrapeCall(t)>>

OneAttemptWitness ==
    \E t \in Tasks :
        /\ pc[t] = "done"
        /\ fetched[t].kind = "RequestError"
        /\ Len(client_get[t]) = 1
        /\ outcome[t].exc # NoExc

\* C13: for each fetch the order is acquire, delay, GET, release.  The delay
\* starts only in the step that takes a free slot; the GET is sent only
\* after the delay, with follow_redirects, and the slot stays taken; the slot
\* is given back only in the step in which that GET returns or raises.
SlotHeldAcrossDelayAndRequest ==
    [][/\ \A t \in Tasks :
             /\ (pc'[t] = "sleep" /\ pc[t] # "sleep")
                  => /\ pc[t] = "acquire"
                     /\ semaphore > 0
                     /\ semaphore' = semaphore - 1
                     /\ client_get'[t] = <<>>
             /\ (client_get'[t] # client_get[t] /\ client_get'[t] # <<>>)
                  => /\ pc[t] = "sleep" /\ pc'[t] = "get"
                     /\ semaphore' = semaphore
                     /\ semaphore' < max_concurrent_scrapes
                     /\ Len(client_get'[t]) = 1
                     /\ client_get'[t][1].follow_redirects
                     /\ fetched'[t] = NotFetched
             /\ (fetched'[t] # fetched[t] /\ fetched'[t] # NotFetched)
                  => /\ pc[t] = "get" /\ pc'[t] # "get"
                     /\ Len(client_get[t]) = 1
                     /\ semaphore' = semaphore + 1
       /\ semaphore' > semaphore
            => \E t \in Tasks : pc[t] = "get" /\ fetched'[t] # NotFetched
       /\ semaphore' < semaphore
            => \E t \in Tasks : pc[t] = "acquire" /\ pc'[t] = "sleep"]_vars

\* one fetch went through the whole order, the next one is at its GET and
\* holds the slot
SlotOrderWitness ==
    \E t, u \in Tasks :
        /\ pc[t] = "done"
        /\ fetched[t] # NotFetched
        /\ pc[u] = "get"
        /\ Len(client_get[u]) = 1
        /\ semaphore = max_concurrent_scrapes - 1

\* C14: a failure of the scraper or of the storage service leaves get_lyrics
\* as a DataServiceException whose message holds the track_id, the
\* artist_name and the track_title of the request, in the form "track_id: ..,
\* artist_name: .., track_title: ..", followed by the text of the failure.
FailureCarriesContext ==
    \A t \in Tasks :
        ClassifiedFailure(t)
        => LET message == outcome[t].exc.message
           IN  /\ IsInstance(outcome[t].exc.type, "DataServiceException")
               /\ Contains(message, request[t].track_id)
               /\ Contains(message, request[t].artist_name)
               /\ Contains(message, request[t].track_title)
               /\ Contains(message, request_context(request[t])
                                      \o <<" - ">> \o caught[t].message)

\* one request failed in the storage service while another failed in the
\* scraper
FailureContextWitness ==
    \E t, u \in Tasks :
        /\ ClassifiedFailure(t) /\ ClassifiedFailure(u)
        /\ caught[t].type = "StorageServiceException"
        /\ caught[u].type = "LyricsScraperException"
        /\ request[t] # request[u]

\* C15: whichever module serves POST /lyrics, the answer is 500 "Something
\* went wrong." whenever get_lyrics raised anything that is not a
\* DataServiceNotFoundException, a DataServiceException or not.
OtherExceptionsAnswer500 ==
    \A t \in Tasks, module \in Apps :
        ( /\ pc[t] = "done"
          /\ outcome[t].exc # NoExc
          /\ ~IsInstance(outcome[t].exc.type, "DataServiceNotFoundException") )
        => response[t][module] = HTTPException(500, "Something went wrong.")

\* the normalized string with its first character in upper case
Capitalized(normalized) ==
    IF normalized = <<>> THEN <<>>
    ELSE <<upper(normalized[1])>> \o Tail(normalized)

\* "/" + A + "-" + t + "-lyrics"
ExpectedPath(artist, title) ==
    <<"/">> \o Capitalized(_format_string_for_url(artist)) \o <<"-">>
      \o _format_string_for_url(title) \o <<"-","l","y","r","i","c","s">>

\* C16: when the artist or the title normalizes to the empty string,
\* _get_url raises nothing and returns the path with an empty segment in
\* that place.
EmptySegmentNeverRaises ==
    ( /\ applied.op = "_get_url"
      /\ \/ _format_string_for_url(applied.args[1]) = <<>>
         \/ _format_string_for_url(applied.args[2]) = <<>> )
    => applied.returned = Return(ExpectedPath(applied.args[1], applied.args[2]))

\* C17: _format_string_for_url applied to its own result returns that
\* result.
FormatIsIdempotent ==
    applied.op = "_format_string_for_url"
    => _format_string_for_url(applied.returned.value) = applied.returned.value

\* C18: when the artist does not normalize to the empty string, _get_url
\* returns "/" + A + "-" + t + "-lyrics": t the normalized title, A the
\* normalized artist with its first character in upper case and the others
\* as they are.
PathAssembly ==
    ( /\ applied.op = "_get_url"
      /\ _format_string_for_url(applied.args[1]) # <<>> )
    => LET artist == _format_string_for_url(applied.args[1])
           path == applied.returned.value
       IN  /\ applied.returned.exc = NoExc
           /\ path = ExpectedPath(applied.args[1], applied.args[2])
           /\ path[2] = upper(artist[1])
           /\ SubSeq(path, 3, Len(artist) + 1) = Tail(artist)

PathAssemblyWitness ==
    /\ applied.op = "_get_url"
    /\ applied.args = <<<<"T","h","e"," ","B","e","a","t","l","e","s">>, <<"H","e","y"," ","J","u","d","e">>>>
    /\ applied.returned = Return(<<"/","T","h","e","-","b","e","a","t","l","e","s","-","h","e","y","-","j","u","d","e","-","l","y","r","i","c","s">>)

\* the text of each container, in the order of the containers
Sections(lyrics_containers) ==
    [i \in 1..Len(lyrics_containers) |-> clean_section(lyrics_containers[i]).value]

\* the number of characters and separators before section i
RECURSIVE Offset(_, _)
Offset(sections, i) ==
    IF i = 1 THEN 0
    ELSE Offset(sections, i - 1) + Len(sections[i - 1]) + 1

\* C19: _clean_lyrics_text of n containers is their texts in the order of
\* the containers with one "<br/>" between two neighbours, n - 1 in all,
\* none before the first or after the last; of no container it is the empty
\* string.
BlockJoining ==
    (applied.op = "_clean_lyrics_text" /\ applied.returned.exc = NoExc)
    => LET sections == Sections(applied.args[1])
           n == Len(sections)
           joined == applied.returned.value
       IN  /\ n = 0 => joined = <<>>
           /\ n > 0 => Len(joined) = Offset(sections, n) + Len(sections[n])
           /\ \A i \in 1..n :
                 SubSeq(joined, Offset(sections, i) + 1,
                        Offset(sections, i) + Len(sections[i])) = sections[i]
           /\ \A i \in 2..n : joined[Offset(sections, i)] = "<br/>"

BlockJoiningWitness ==
    /\ applied.op = "_clean_lyrics_text"
    /\ applied.args =
         << <<LyricsContainer(<<Text(<<"F","i","r","s","t">>)>>),
              LyricsContainer(<<Text(<<"S","e","c","o","n","d">>), Tag("br", <<>>)>>)>> >>
    /\ applied.returned = Return(<<"F","i","r","s","t">> \o <<"<br/>">> \o <<"S","e","c","o","n","d">> \o <<"<br/>">>)

\* what the policy gives for one child of a container
Contribution(element) ==
    CASE element.name = "#text" -> element.text
      [] element.name \in {"br", "i", "b"} -> str(element)
      [] element.name = "a" ->
            LET span == find(element.contents, "span")
            IN  Concat([i \in 1..Len(span.contents) |-> str(span.contents[i])])
      [] OTHER -> <<>>

\* C20: the text of a container is, child by child in document order: the
\* text of a text node; the serialized form of a br, i or b; for an a, the
\* serialized children of its first nested span; nothing for any other
\* element.  (For containers whose a elements have a span.)
PerNodePolicy ==
    ( /\ applied.op = "_clean_lyrics_text"
      /\ Len(applied.args[1]) = 1
      /\ \A i \in 1..Len(applied.args[1][1].contents) :
            applied.args[1][1].contents[i].name = "a"
            => find(applied.args[1][1].contents[i].contents, "span") # NoTag )
    => LET contents == applied.args[1][1].contents
       IN  applied.returned
             = Return(Concat([i \in 1..Len(contents) |-> Contribution(contents[i])]))

PerNodePolicyWitness ==
    /\ applied.op = "_clean_lyrics_text"
    /\ applied.args =
         << <<LyricsContainer(
                <<Tag("a", <<Tag("span", <<Text(<<"p">>)>>),
                             Tag("span", <<Text(<<"q">>)>>)>>),
                  Tag("span", <<Text(<<"s">>)>>)>>)>> >>
    /\ applied.returned = Return(<<"p">>)

\* the database failed to answer the SELECT of the task
RetrieveFailed(exc) ==
    exc.type \in {"StorageServiceException", "InterfaceError"}

\* C21: retrieve_lyrics for a track_id without a row returns None, raises
\* nothing and leaves the table as it is: the request goes on to scrape.
\* (When the database answers the SELECT.)
RetrieveAbsentIsNone ==
    [][\A t \in Tasks :
          ( /\ pc[t] = "retrieve_lyrics"
            /\ pc'[t] # "retrieve_lyrics"
            /\ request[t].track_id \notin DOMAIN db
            /\ ~RetrieveFailed(caught'[t]) )
          => /\ retrieve_lyrics(db, request[t].track_id, "None") = Return(None)
             /\ lyrics'[t] = None
             /\ db' = db
             /\ calls'[t] = <<RetrieveCall(t), ScrapeCall(t)>>
             /\ retrieve_lyrics(db', request[t].track_id, "None") = Return(None)]_vars

\* a request was told that its track has no row, while the table holds the
\* row of another track
RetrieveAbsentWitness ==
    \E t \in Tasks :
        /\ pc[t] = "acquire"
        /\ lyrics[t] = None
        /\ request[t].track_id \notin DOMAIN db
        /\ db # <<>>

\* the request ended in a failure of its call of scrape_lyrics
ScrapeFailed(t) ==
    /\ pc[t] = "done"
    /\ calls[t] = <<RetrieveCall(t), ScrapeCall(t)>>
    /\ caught[t] # NoExc

\* what the first failing step of scrape_lyrics raised: _get_url, _get_html,
\* the two checks of scrape_lyrics itself, or _clean_lyrics_text
FirstFailure(t) ==
    LET artist_name == request[t].artist_name
        track_title == request[t].track_title
        url == _get_url(artist_name, track_title)
        html == _get_html(fetched[t])
    IN  IF url.exc # NoExc THEN url.exc
        ELSE IF html.exc # NoExc THEN html.exc
        ELSE LET lyrics_containers == _extract_lyrics_containers(html.value)
                 cleaned == _clean_lyrics_text(lyrics_containers)
             IN  IF lyrics_containers = <<>>
                 THEN Exc("LyricsScraperException",
                          <<"Lyrics containers not found for ">>
                            \o artist_name \o <<" - ">> \o track_title)
                 ELSE IF cleaned.exc # NoExc THEN cleaned.exc
                 ELSE Exc("LyricsScraperException",
                          <<"Lyrics not found for ">>
                            \o artist_name \o <<" - ">> \o track_title)

\* C22: what scrape_lyrics raises is always a LyricsScraperException: the
\* one a step raised, message unchanged, or, when the step raised anything
\* else, one with the message "An error occurred while scraping the lyrics".
ScrapeErrorPropagation ==
    \A t \in Tasks :
        ScrapeFailed(t)
        => /\ caught[t].type = "LyricsScraperException"
           /\ IF FirstFailure(t).type = "LyricsScraperException"
              THEN caught[t] = FirstFailure(t)
              ELSE caught[t].message
                     = <<"An error occurred while scraping the lyrics">>

\* one request failed on an IndexError of _get_url or a TypeError of
\* _clean_lyrics_text, another on a LyricsScraperException of _get_html
ScrapeErrorWitness ==
    \E t, u \in Tasks :
        /\ ScrapeFailed(t) /\ ScrapeFailed(u)
        /\ FirstFailure(t).type \in {"IndexError", "TypeError"}
        /\ caught[t].message = <<"An error occurred while scraping the lyrics">>
        /\ FirstFailure(u).type = "LyricsScraperException"
        /\ Head(caught[u].message) = "Request failed"

StorageFailure(kind, text) ==
    Exc("StorageServiceException", <<kind, " - ", text>>)

\* C23: store_lyrics reports an integrity violation as "Track ID '<id>'
\* already exists.", an operational error as "Database operation failed"
\* and another database error as "Unexpected database error";
\* retrieve_lyrics reports an operational error as "Database operation
\* failed" and another database error as "Unexpected database error".  All
\* are StorageServiceException, and none of the three causes is reported
\* under the name of another.
StorageFailureClassified ==
    \A t \in Tasks :
        LET track_id == request[t].track_id
        IN  /\ pc[t] = "store_lyrics"
                 => /\ store_lyrics(db, track_id, lyrics[t].value, "OperationalError").exc
                         = StorageFailure("Database operation failed", "database fault")
                    /\ store_lyrics(db, track_id, lyrics[t].value, "DatabaseError").exc
                         = StorageFailure("Unexpected database error", "database fault")
                    /\ track_id \in DOMAIN db
                         => store_lyrics(db, track_id, lyrics[t].value, "None").exc
                              = Exc("StorageServiceException",
                                    <<"Track ID '">> \o track_id
                                      \o <<"' already exists.">>)
            /\ pc[t] = "retrieve_lyrics"
                 => /\ retrieve_lyrics(db, track_id, "OperationalError").exc
                         = StorageFailure("Database operation failed", "database fault")
                    /\ retrieve_lyrics(db, track_id, "DatabaseError").exc
                         = StorageFailure("Unexpected database error", "database fault")
            /\ (pc[t] = "done" /\ caught[t].type = "StorageServiceException")
                 => \/ /\ Len(calls[t]) = 3
                       /\ track_id \in DOMAIN db
                       /\ caught[t].message
                            = <<"Track ID '">> \o track_id \o <<"' already exists.">>
                    \/ /\ Len(calls[t]) \in {1, 3}
                       /\ caught[t] \in
                            { StorageFailure("Database operation failed", "database fault"),
                              StorageFailure("Unexpected database error", "database fault") }

\* a store failed on an operational error while a retrieve failed on
\* another database error
StorageFailureWitness ==
    \E t, u \in Tasks :
        /\ pc[t] = "done" /\ pc[u] = "done"
        /\ Len(calls[t]) = 3
        /\ caught[t] = StorageFailure("Database operation failed", "database fault")
        /\ Len(calls[u]) = 1
        /\ caught[u] = StorageFailure("Unexpected database error", "database fault")

\* C24: the table only grows.  Whatever the requests in flight and their
\* keys, a step keeps every row with its value; when it changes the table it
\* adds one row, for a key that had none, with the value that the storing
\* request scraped.  So the value of a key is that of the first store that
\* succeeded for it.
CacheIsAppendOnly ==
    [][/\ DOMAIN db \subseteq DOMAIN db'
       /\ \A k \in DOMAIN db : db'[k] = db[k]
       /\ db' # db
            => \E t \in Tasks :
                  /\ pc[t] = "store_lyrics" /\ pc'[t] = "done"
                  /\ caught'[t] = NoExc
                  /\ request[t].track_id \notin DOMAIN db
                  /\ DOMAIN db' = DOMAIN db \cup {request[t].track_id}
                  /\ db'[request[t].track_id] = lyrics[t].value]_vars

\* two keys are stored, and a second store of one of them, with another
\* value, was refused
AppendOnlyWitness ==
    \E t \in Tasks :
        /\ Cardinality(DOMAIN db) = 2
        /\ DuplicateKeyReported(t)
        /\ db[request[t].track_id] # lyrics[t].value

\* a text was extracted for the request from what the GET gave: the url
\* was derived, the GET gave a 2xx page, the page has containers and their
\* text is not empty
Extracted(lyrics_request, got) ==
    /\ _get_url(lyrics_request.artist_name, lyrics_request.track_title).exc = NoExc
    /\ got.kind = "Response"
    /\ is_success(got.status_code)
    /\ _extract_lyrics_containers(got.html) # <<>>
    /\ _clean_lyrics_text(_extract_lyrics_containers(got.html)).exc = NoExc
    /\ _clean_lyrics_text(_extract_lyrics_containers(got.html)).value # <<>>

\* there is a store_lyrics call among the calls
StoreIssued(made) ==
    \E i \in 1..Len(made) : made[i].op = "store_lyrics"

\* C25: a request whose url derivation, fetch or extraction failed ends in
\* failure in that step, issues no store_lyrics and leaves the table as it
\* was; a request is at its store only after it extracted a text that is not
\* empty, and that text is what it stores.
FailedResolutionWritesNothing ==
    [][\A t \in Tasks :
          /\ ( /\ pc[t] \in {"retrieve_lyrics", "get"}
               /\ pc'[t] = "done"
               /\ calls'[t] # <<RetrieveCall(t)>>
               /\ ~Extracted(request[t], fetched'[t]) )
             => /\ outcome'[t].exc # NoExc
                /\ ~StoreIssued(calls'[t])
                /\ db' = db
          /\ StoreIssued(calls'[t])
             => /\ Extracted(request'[t], fetched'[t])
                /\ lyrics'[t].value
                     = _clean_lyrics_text(
                          _extract_lyrics_containers(fetched'[t].html)).value
          /\ pc'[t] = "store_lyrics" => StoreIssued(calls'[t])]_vars

\* the table has a row that another request stored, and one request ended
\* in failure on a page without lyrics containers or with empty lyrics,
\* without a store_lyrics
FailedResolutionWitness ==
    \E t, u \in Tasks :
        /\ db # <<>>
        /\ pc[t] = "done" /\ pc[u] = "done"
        /\ fetched[t] \in {Response(200, no_container), Response(200, empty_text)}
        /\ outcome[t].exc # NoExc /\ outcome[u].exc = NoExc
        /\ ~StoreIssued(calls[t]) /\ StoreIssued(calls[u])

\* C26: the free slots and the fetches inside the limited section add up to
\* max_concurrent_scrapes in every state, whatever the GETs returned or
\* raised; when no fetch is inside, every slot is free.
SlotConservation ==
    /\ semaphore + Cardinality({t \in Tasks : InLimitedSection(t)})
         = max_concurrent_scrapes
    /\ (\A t \in Tasks : pc[t] \in {"idle", "done"})
         => semaphore = max_concurrent_scrapes

\* every fetch has finished, one with a request error and one with a
\* response outside 2xx, and every slot is free
SlotConservationWitness ==
    \E t, u \in Tasks :
        /\ \A v \in Tasks : pc[v] = "done"
        /\ fetched[t].kind = "RequestError"
        /\ fetched[u] = Response(404, <<>>)
        /\ semaphore = max_concurrent_scrapes

\* C27: with at least one slot, every request that waits for a slot gets
\* one, and every request posted ends, with a result or with a failure.
LimiterLiveness ==
    \A t \in Tasks :
        /\ (pc[t] = "acquire") ~> (pc[t] = "sleep")
        /\ (pc[t] # "idle") ~> (pc[t] = "done")

\* a request waits for a slot while the others hold every slot
LimiterWaitWitness ==
    \E t \in Tasks :
        /\ pc[t] = "acquire"
        /\ semaphore = 0
        /\ max_concurrent_scrapes >= 1
        /\ Cardinality({u \in Tasks : InLimitedSection(u)}) = max_concurrent_scrapes

\* C28: the table starts empty, and then every value handed to store_lyrics
\* is a string that is not empty, every row of the table holds lyrics that
\* are not empty, and every request that ended with a result has lyrics
\* that are not empty.
OnlyNonEmptyContent ==
    /\ \A t \in Tasks : \A i \in 1..Len(calls[t]) :
           calls[t][i].op = "store_lyrics" => calls[t][i].args[2] # <<>>
    /\ \A track_id \in DOMAIN db : db[track_id] # <<>>
    /\ \A t \in Tasks :
           (pc[t] = "done" /\ outcome[t].exc = NoExc)
               => outcome[t].value.lyrics # <<>>

\* one request ended with the lyrics it scraped and stored, another with the
\* lyrics it found in the table
NonEmptyContentWitness ==
    \E t, u \in Tasks :
        /\ pc[t] = "done" /\ pc[u] = "done"
        /\ outcome[t].exc = NoExc /\ outcome[u].exc = NoExc
        /\ StoreIssued(calls[t])
        /\ fetched[u] = NotFetched
        /\ outcome[u].value.lyrics = db[request[u].track_id]

\* the shape of a path segment: lowercase letters, digits and hyphens only, no
\* two hyphens in a row and no hyphen at either end
IsSegment(s) ==
    /\ \A i \in 1..Len(s) : s[i] \in Range(ascii_lowercase) \cup digits \cup {"-"}
    /\ \A i \in 1..(Len(s) - 1) : ~(s[i] = "-" /\ s[i+1] = "-")
    /\ s # <<>> => (s[1] # "-" /\ s[Len(s)] # "-")

\* C29: for every input string the result of _format_string_for_url has
\* only lowercase ASCII letters, digits and single hyphens: no whitespace of
\* any kind, no two hyphens in a row, no hyphen at either end.
NormalizedShape ==
    applied.op = "_format_string_for_url" => IsSegment(applied.returned.value)

\* the same for inputs whose only whitespace is the space
NormalizedShapeOfSpaced ==
    (/\ applied.op = "_format_string_for_url"
     /\ \A i \in 1..Len(applied.args[1]) : applied.args[1][i] \notin {"\t", "\n"})
        => IsSegment(applied.returned.value)

\* C30: _clean_lyrics_text returns a string for every list of containers
\* and does not raise, also when a container holds an `a` element that has
\* no span below it.
CleanTextIsTotal ==
    applied.op = "_clean_lyrics_text" => applied.returned.exc = NoExc

====
